---- MODULE Spec2Model ----
(***************************************************************************)
(* AI-Job-Search-Agent: the actor's main() with its output normalizer      *)
(* (src/src/main.py), the agent loop it configures, and the tool adapters  *)
(* (src/src/tools.py).                                                     *)
(*                                                                         *)
(* Text is a sequence of lexemes: the code fence, the word json, white     *)
(* space, the JSON punctuation, the double quote, digits, null and plain   *)
(* words.  A Python value is a record [t, v]: t its type, v its content.   *)
(***************************************************************************)
EXTENDS Integers, Sequences, FiniteSets, TLC

Min(a, b) == IF a < b THEN a ELSE b

\* ------------------------------------------------------------ Python values

PyNone == [t |-> "null", v |-> <<>>]

PyInt(n) == [t |-> "num", v |-> <<n>>]

PyStr(s) == [t |-> "str", v |-> s]

PyBool(b) == [t |-> "bool", v |-> <<b>>]

PyList(xs) == [t |-> "arr", v |-> xs]

PyDict(ps) == [t |-> "obj", v |-> ps]

Pair(k, x) == [k |-> k, val |-> x]

\* isinstance(x, dict), isinstance(x, str)
IsDict(x) == x.t = "obj"

IsStr(x) == x.t = "str"

\* key in d
HasKey(d, k) == \E i \in 1..Len(d.v) : d.v[i].k = k

\* d[k] for a key that is present
DictItem(d, k) ==
    d.v[CHOOSE i \in 1..Len(d.v) : d.v[i].k = k].val

\* d.get(k, default)
DictGet(d, k, default) == IF HasKey(d, k) THEN DictItem(d, k) ELSE default

\* d[k] = x while a dict is built: a repeated key keeps its place, takes the new value
DictSet(ps, k, x) ==
    IF \E i \in 1..Len(ps) : ps[i].k = k
    THEN [i \in 1..Len(ps) |-> IF ps[i].k = k THEN Pair(k, x) ELSE ps[i]]
    ELSE Append(ps, Pair(k, x))

\* bool(x): None, False, 0, "", [] and {} are false
PyTruthy(x) ==
    CASE x.t = "null" -> FALSE
      [] x.t = "bool" -> x.v[1]
      [] x.t = "num" -> x.v[1] # 0
      [] OTHER -> Len(x.v) > 0

\* ------------------------------------------------------------ lexemes

\* the three backticks that open or close a code block, as one lexeme
FENCE == "<fence>"

QUOTE == "\""

Digits == {"0", "7"}

NumVal(c) == IF c = "0" THEN 0 ELSE 7

NumSym(n) == IF n = 0 THEN "0" ELSE "7"

\* \s of the regex, and the white space json.loads skips
IsWs(c) == c \in {" ", "\n"}

At(s, i) == IF i \in 1..Len(s) THEN s[i] ELSE "<eof>"

RECURSIVE SkipWs(_, _)
SkipWs(s, i) == IF IsWs(At(s, i)) THEN SkipWs(s, i + 1) ELSE i

\* ------------------------------------------------------------ json.loads

ParseFail == [ok |-> FALSE, val |-> PyNone, next |-> 0]

ParseOk(x, n) == [ok |-> TRUE, val |-> x, next |-> n]

\* the characters of a string up to its closing quote; a literal line break
\* inside a string is a control character the strict decoder rejects
RECURSIVE ScanString(_, _, _)
ScanString(s, i, acc) ==
    IF i > Len(s) \/ s[i] = "\n" THEN ParseFail
    ELSE IF s[i] = QUOTE THEN ParseOk(PyStr(acc), i + 1)
    ELSE ScanString(s, i + 1, Append(acc, s[i]))

RECURSIVE ParseValue(_, _)
RECURSIVE ParseElements(_, _, _)
RECURSIVE ParseMembers(_, _, _)

\* one value starting at lexeme i (white space already skipped)
ParseValue(s, i) ==
    LET c == At(s, i) IN
    CASE c = QUOTE -> ScanString(s, i + 1, <<>>)
      [] c = "{" ->
            LET j == SkipWs(s, i + 1) IN
            IF At(s, j) = "}" THEN ParseOk(PyDict(<<>>), j + 1)
            ELSE ParseMembers(s, j, <<>>)
      [] c = "[" ->
            LET j == SkipWs(s, i + 1) IN
            IF At(s, j) = "]" THEN ParseOk(PyList(<<>>), j + 1)
            ELSE ParseElements(s, j, <<>>)
      [] c \in Digits -> ParseOk(PyInt(NumVal(c)), i + 1)
      [] c = "null" -> ParseOk(PyNone, i + 1)
      [] OTHER -> ParseFail

\* the elements of an array after "[": value ("," value)* "]"
ParseElements(s, i, acc) ==
    LET r == ParseValue(s, i) IN
    IF ~r.ok THEN ParseFail
    ELSE LET j == SkipWs(s, r.next)
             got == Append(acc, r.val)
         IN CASE At(s, j) = "]" -> ParseOk(PyList(got), j + 1)
              [] At(s, j) = "," -> ParseElements(s, SkipWs(s, j + 1), got)
              [] OTHER -> ParseFail

\* the members of an object after "{": string ":" value ("," ...)* "}"
ParseMembers(s, i, acc) ==
    IF At(s, i) # QUOTE THEN ParseFail
    ELSE LET k == ScanString(s, i + 1, <<>>) IN
         IF ~k.ok \/ At(s, SkipWs(s, k.next)) # ":" THEN ParseFail
         ELSE LET r == ParseValue(s, SkipWs(s, SkipWs(s, k.next) + 1)) IN
              IF ~r.ok THEN ParseFail
              ELSE LET j == SkipWs(s, r.next)
                       got == DictSet(acc, k.val.v, r.val)
                   IN CASE At(s, j) = "}" -> ParseOk(PyDict(got), j + 1)
                        [] At(s, j) = "," -> ParseMembers(s, SkipWs(s, j + 1), got)
                        [] OTHER -> ParseFail

\* json.loads(s): one value, white space around it, nothing after it;
\* ok = FALSE is json.JSONDecodeError
json_loads(s) ==
    LET r == ParseValue(s, SkipWs(s, 1)) IN
    IF r.ok /\ SkipWs(s, r.next) = Len(s) + 1
    THEN [ok |-> TRUE, val |-> r.val]
    ELSE [ok |-> FALSE, val |-> PyNone]

\* ------------------------------------------------------------ re.search

NoMatch == [found |-> FALSE, group |-> <<>>]

\* .*?} followed by \s* and the fence: the first "}" at or after i that white space and
\* a fence follow; 0 when there is none
FindClose(s, i) ==
    LET closes == {r \in i..Len(s) : s[r] = "}" /\ At(s, SkipWs(s, r + 1)) = FENCE} IN
    IF closes = {} THEN 0 ELSE CHOOSE r \in closes : \A q \in closes : r <= q

\* the pattern  fence (?:json)? \s* ( { \s* " .*? } ) \s* fence  anchored at lexeme p
MatchAt(s, p) ==
    IF At(s, p) # FENCE THEN NoMatch
    ELSE LET b == SkipWs(s, IF At(s, p + 1) = "json" THEN p + 2 ELSE p + 1) IN
         IF At(s, b) # "{" \/ At(s, SkipWs(s, b + 1)) # QUOTE THEN NoMatch
         ELSE LET r == FindClose(s, SkipWs(s, b + 1) + 1) IN
              IF r = 0 THEN NoMatch
              ELSE [found |-> TRUE, group |-> SubSeq(s, b, r)]

\* re.search: the leftmost position where the pattern matches
SearchFrom(s, p) ==
    LET starts == {q \in p..Len(s) : MatchAt(s, q).found} IN
    IF starts = {} THEN NoMatch
    ELSE MatchAt(s, CHOOSE q \in starts : \A r \in starts : q <= r)

re_search(s) == SearchFrom(s, 1)

\* str.strip(): leading and trailing white space removed
RECURSIVE RStrip(_)
RStrip(s) == IF Len(s) > 0 /\ IsWs(s[Len(s)]) THEN RStrip(SubSeq(s, 1, Len(s) - 1)) ELSE s

strip(s) == RStrip(SubSeq(s, SkipWs(s, 1), Len(s)))

\* ------------------------------------------------------------ str(), repr()

TypeName(x) ==
    CASE x.t = "null" -> "NoneType"
      [] x.t = "num" -> "int"
      [] x.t = "bool" -> "bool"
      [] x.t = "str" -> "str"
      [] x.t = "arr" -> "list"
      [] OTHER -> "dict"

RECURSIVE Repr(_)
RECURSIVE ReprElements(_)
RECURSIVE ReprMembers(_)

\* repr(x): strings in single quotes with a line break escaped, None for null
Repr(x) ==
    CASE x.t = "null" -> <<"None">>
      [] x.t = "num" -> <<NumSym(x.v[1])>>
      [] x.t = "str" ->
            <<"'">> \o [i \in 1..Len(x.v) |-> IF x.v[i] = "\n" THEN "\\n" ELSE x.v[i]]
                    \o <<"'">>
      [] x.t = "arr" -> <<"[">> \o ReprElements(x.v) \o <<"]">>
      [] OTHER -> <<"{">> \o ReprMembers(x.v) \o <<"}">>

ReprElements(xs) ==
    IF Len(xs) = 0 THEN <<>>
    ELSE Repr(Head(xs)) \o (IF Len(xs) = 1 THEN <<>> ELSE <<",", " ">> \o ReprElements(Tail(xs)))

ReprMembers(ps) ==
    IF Len(ps) = 0 THEN <<>>
    ELSE Repr(PyStr(Head(ps).k)) \o <<":", " ">> \o Repr(Head(ps).val)
         \o (IF Len(ps) = 1 THEN <<>> ELSE <<",", " ">> \o ReprMembers(Tail(ps)))

\* str(x): a string is itself, anything else its repr
py_str(x) == IF IsStr(x) THEN x.v ELSE Repr(x)

\* ------------------------------------------------------------ the agent's final text

\* the largest number of jobs in a final answer
MaxJobs == 7

JobName == <<"j1", "j2", "j3", "j4", "j5", "j6", "j7", "j8", "j9">>

\* one job mapping of a final answer
Job(i) == PyDict(<<Pair(<<"title">>, PyStr(<<JobName[i]>>))>>)

\* json.dumps(x), with its default separators
RECURSIVE Dumps(_)
RECURSIVE DumpsElements(_)
RECURSIVE DumpsMembers(_)

Dumps(x) ==
    CASE x.t = "null" -> <<"null">>
      [] x.t = "num" -> <<NumSym(x.v[1])>>
      [] x.t = "str" -> <<QUOTE>> \o x.v \o <<QUOTE>>
      [] x.t = "arr" -> <<"[">> \o DumpsElements(x.v) \o <<"]">>
      [] OTHER -> <<"{">> \o DumpsMembers(x.v) \o <<"}">>

DumpsElements(xs) ==
    IF Len(xs) = 0 THEN <<>>
    ELSE Dumps(Head(xs)) \o (IF Len(xs) = 1 THEN <<>> ELSE <<",", " ">> \o DumpsElements(Tail(xs)))

DumpsMembers(ps) ==
    IF Len(ps) = 0 THEN <<>>
    ELSE Dumps(PyStr(Head(ps).k)) \o <<":", " ">> \o Dumps(Head(ps).val)
         \o (IF Len(ps) = 1 THEN <<>> ELSE <<",", " ">> \o DumpsMembers(Tail(ps)))

\* What the model's final answer holds.  top: the JSON value it writes, or
\* prose, or JSON cut short; for an object, which of the three keys it has
\* and what "jobs" is; wrap: how the value sits in the text.
JobsKinds == {"absent", "array", "null", "number", "object", "string"}

RecsKinds == {"absent", "list", "fence"}

TopKinds == {"array", "empty_array", "number", "zero", "null", "string",
             "prose", "stopped", "broken"}

Wraps == {"direct", "padded", "fenced_json", "fenced", "fenced_prose", "second_block"}

Answers ==
    { [top |-> "object", summary |-> sm, jobs |-> jk, n |-> n, recs |-> rk, wrap |-> w] :
        sm \in BOOLEAN, jk \in JobsKinds \ {"array"}, n \in {0}, rk \in RecsKinds, w \in Wraps }
    \cup
    { [top |-> "object", summary |-> sm, jobs |-> "array", n |-> n, recs |-> rk, wrap |-> w] :
        sm \in BOOLEAN, n \in 0..MaxJobs, rk \in RecsKinds, w \in Wraps }
    \cup
    { [top |-> tk, summary |-> FALSE, jobs |-> "absent", n |-> 0, recs |-> "absent", wrap |-> w] :
        tk \in TopKinds, w \in Wraps }

\* the value of "jobs" in the answer
AnswerJobs(g) ==
    CASE g.jobs = "array" -> PyList([i \in 1..g.n |-> Job(i)])
      [] g.jobs = "null" -> PyNone
      [] g.jobs = "number" -> PyInt(7)
      [] g.jobs = "object" -> Job(1)
      [] OTHER -> PyStr(<<"x", "x", "x", "x", "x", "x">>)

\* the value of "recommendations": a list of one step, or of one step whose
\* text shows a closing brace and a fence
AnswerRecs(g) ==
    IF g.recs = "list" THEN PyList(<<PyStr(<<"apply">>)>>)
    ELSE PyList(<<PyStr(<<"end", " ", "with", " ", "}", FENCE>>)>>)

\* the JSON value the answer writes (for the kinds that write one)
AnswerValue(g) ==
    CASE g.top = "object" ->
            PyDict((IF g.summary THEN <<Pair(<<"summary">>, PyStr(<<"ok">>))>> ELSE <<>>)
                   \o (IF g.jobs # "absent" THEN <<Pair(<<"jobs">>, AnswerJobs(g))>> ELSE <<>>)
                   \o (IF g.recs # "absent"
                       THEN <<Pair(<<"recommendations">>, AnswerRecs(g))>> ELSE <<>>))
      [] g.top = "array" -> PyList(<<Job(1)>>)
      [] g.top = "empty_array" -> PyList(<<>>)
      [] g.top = "number" -> PyInt(7)
      [] g.top = "zero" -> PyInt(0)
      [] g.top = "string" -> PyStr(<<"ok">>)
      [] OTHER -> PyNone

\* the answer's body: the value as JSON, prose, the executor's stop message,
\* or an object that is never closed
AnswerBody(g) ==
    CASE g.top = "prose" -> <<"no", " ", "json", " ", "here">>
      [] g.top = "stopped" -> <<"Agent", " ", "stopped", " ", "due", " ", "to", " ", "limit">>
      [] g.top = "broken" -> <<"{", QUOTE, "summary", QUOTE, ":", " ", QUOTE, "ok", QUOTE>>
      [] OTHER -> Dumps(AnswerValue(g))

\* the final text
AnswerText(g) ==
    CASE g.wrap = "direct" -> AnswerBody(g)
      [] g.wrap = "padded" -> <<"\n">> \o AnswerBody(g) \o <<" ", "\n">>
      [] g.wrap = "fenced_json" -> <<FENCE, "json", "\n">> \o AnswerBody(g) \o <<"\n", FENCE>>
      [] g.wrap = "fenced" -> <<FENCE>> \o AnswerBody(g) \o <<FENCE>>
      [] g.wrap = "fenced_prose" ->
            <<"Here", " ", "you", " ", "go", "\n", FENCE, "json", "\n">> \o AnswerBody(g)
                \o <<"\n", FENCE, "\n", "Good", " ", "luck">>
      [] OTHER ->
            <<FENCE, "\n", "{", QUOTE, "draft", QUOTE, "}", "\n", FENCE, "\n",
              FENCE, "json", "\n">> \o AnswerBody(g) \o <<"\n", FENCE>>

\* ------------------------------------------------------------ main()

VARIABLES
    pc,          \* where main() is
    actor_input, \* what Actor.get_input() gave
    prefs,       \* resume, location, job_type, keywords read from the input
    answer,      \* what the agent's final answer holds (the source of result)
    result,      \* what agent.ainvoke returned
    output,      \* result['output']
    json_data,   \* the parsed JSON, None while nothing parsed
    exc,         \* str(e) of the exception the try block caught, <<>> when none
    sink,        \* the records pushed with Actor.push_data (which accepts them), in order
    steps        \* the steps of main() taken so far, in order

main_vars == <<pc, actor_input, prefs, answer, result, output, json_data, exc, sink, steps>>

\* a name not bound yet
Unset == [t |-> "unset", v |-> <<>>]

NoAnswer == [top |-> "none", summary |-> FALSE, jobs |-> "absent", n |-> 0,
             recs |-> "absent", wrap |-> "direct"]

fallback_input == PyDict(<<Pair(<<"query">>, PyStr(<<"fallback">>)),
                           Pair(<<"modelName">>, PyStr(<<"gpt-4o-mini">>))>>)

\* Actor.get_input(): no input, an empty mapping, preferences, a resume only
ActorInputs ==
    <<PyNone,
      PyDict(<<>>),
      PyDict(<<Pair(<<"location">>, PyStr(<<"Berlin">>)),
               Pair(<<"jobType">>, PyStr(<<"contract">>)),
               Pair(<<"keywords">>, PyStr(<<"python">>))>>),
      PyDict(<<Pair(<<"resume">>, PyStr(<<"cv">>))>>)>>

\* what ainvoke can return besides a mapping whose output is the final text
OtherResults ==
    <<PyDict(<<Pair(<<"input">>, PyStr(<<"task">>)), Pair(<<"output">>, PyNone)>>),
      PyDict(<<Pair(<<"input">>, PyStr(<<"task">>)), Pair(<<"output">>, PyInt(7))>>),
      PyDict(<<Pair(<<"input">>, PyStr(<<"task">>)),
               Pair(<<"output">>, PyDict(<<Pair(<<"summary">>, PyStr(<<"ok">>))>>))>>),
      PyDict(<<Pair(<<"input">>, PyStr(<<"task">>))>>),
      PyNone,
      PyStr(<<"ok">>),
      PyList(<<PyStr(<<"ok">>)>>)>>

InitMain ==
    /\ pc = "start"
    /\ actor_input = Unset
    /\ prefs = Unset
    /\ answer = NoAnswer
    /\ result = Unset
    /\ output = Unset
    /\ json_data = Unset
    /\ exc = <<>>
    /\ sink = <<>>
    /\ steps = <<>>

\* actor_input = await Actor.get_input() or fallback_input, and the four reads
GetInput ==
    /\ pc = "start"
    /\ \E i \in 1..Len(ActorInputs) :
         LET got == ActorInputs[i]
             inp == IF PyTruthy(got) THEN got ELSE fallback_input
         IN /\ actor_input' = inp
            /\ prefs' = [resume |-> DictGet(inp, <<"resume">>, PyStr(<<>>)),
                         location |-> DictGet(inp, <<"location">>, PyStr(<<"Remote">>)),
                         job_type |-> DictGet(inp, <<"jobType">>, PyStr(<<"full-time">>)),
                         keywords |-> DictGet(inp, <<"keywords">>, PyStr(<<>>))]
    /\ pc' = "invoke"
    /\ steps' = Append(steps, "get_input")
    /\ UNCHANGED <<answer, result, output, json_data, exc, sink>>

\* result = await agent.ainvoke(...): the loop ends with a final text
AinvokeReturnsText ==
    /\ pc = "invoke"
    /\ \E g \in Answers :
         /\ answer' = g
         /\ result' = PyDict(<<Pair(<<"input">>, PyStr(<<"task">>)),
                               Pair(<<"output">>, PyStr(AnswerText(g)))>>)
    /\ pc' = "process"
    /\ steps' = Append(steps, "ainvoke")
    /\ UNCHANGED <<actor_input, prefs, output, json_data, exc, sink>>

\* result = await agent.ainvoke(...): it returns anything else
AinvokeReturnsOther ==
    /\ pc = "invoke"
    /\ \E i \in 1..Len(OtherResults) : result' = OtherResults[i]
    /\ pc' = "process"
    /\ steps' = Append(steps, "ainvoke")
    /\ UNCHANGED <<actor_input, prefs, answer, output, json_data, exc, sink>>

\* await agent.ainvoke(...) raises: the call is outside the try block, the
\* exception leaves main()
AinvokeRaises ==
    /\ pc = "invoke"
    /\ pc' = "raised"
    /\ steps' = Append(steps, "ainvoke")
    /\ UNCHANGED <<actor_input, prefs, answer, result, output, json_data, exc, sink>>

\* the record of the "Unexpected output format" branch
UnexpectedRecord(res) ==
    [error |-> PyStr(<<"Unexpected output format">>), raw_output |-> PyStr(py_str(res))]

\* if isinstance(result, dict) and 'output' in result: ... else: push
CheckResult ==
    /\ pc = "process"
    /\ IF IsDict(result) /\ HasKey(result, <<"output">>)
       THEN /\ output' = DictItem(result, <<"output">>)
            /\ json_data' = PyNone
            /\ pc' = IF IsStr(DictItem(result, <<"output">>)) THEN "loads" ELSE "build"
            /\ sink' = sink
       ELSE /\ sink' = Append(sink, UnexpectedRecord(result))
            /\ pc' = "done"
            /\ UNCHANGED <<output, json_data>>
    /\ steps' = Append(steps, "check")
    /\ UNCHANGED <<actor_input, prefs, answer, result, exc>>

\* try: json_data = json.loads(output)  except json.JSONDecodeError: (search)
DirectParse ==
    /\ pc = "loads"
    /\ LET r == json_loads(output.v) IN
       IF r.ok THEN json_data' = r.val /\ pc' = "build"
       ELSE json_data' = json_data /\ pc' = "search"
    /\ steps' = Append(steps, "loads")
    /\ UNCHANGED <<actor_input, prefs, answer, result, output, exc, sink>>

\* json_match = re.search(...); if json_match: try json.loads(group(1).strip())
ExtractFenced(text, before) ==
    LET m == re_search(text) IN
    IF m.found /\ json_loads(strip(m.group)).ok
    THEN json_loads(strip(m.group)).val
    ELSE before

FencedParse ==
    /\ pc = "search"
    /\ json_data' = ExtractFenced(output.v, json_data)
    /\ pc' = "build"
    /\ steps' = Append(steps, "search")
    /\ UNCHANGED <<actor_input, prefs, answer, result, output, exc, sink>>

\* x[:5] of a list or a string
Slice5(x) == [t |-> x.t, v |-> SubSeq(x.v, 1, Min(Len(x.v), 5))]

\* str(e) of what building cleaned_data raises, {} when it raises nothing:
\* .get of a value that is no dict, or [:5] of a "jobs" that cannot be sliced
\* (for a dict, TypeError or KeyError by interpreter version)
BuildRaises(jd) ==
    IF ~IsDict(jd) THEN {"'" \o TypeName(jd) \o "' object has no attribute 'get'"}
    ELSE LET jobs == DictGet(jd, <<"jobs">>, PyList(<<>>)) IN
         CASE jobs.t \in {"arr", "str"} -> {}
           [] jobs.t = "obj" -> {"unhashable type: 'slice'", "slice(None, 5, None)"}
           [] OTHER -> {"'" \o TypeName(jobs) \o "' object is not subscriptable"}

\* cleaned_data
CleanedData(jd) ==
    [summary |-> DictGet(jd, <<"summary">>, PyStr(<<"No summary provided">>)),
     jobs |-> Slice5(DictGet(jd, <<"jobs">>, PyList(<<>>))),
     recommendations |-> DictGet(jd, <<"recommendations">>, PyList(<<>>))]

\* the record of the "Could not parse JSON output" branch
ParseErrorRecord(out) ==
    [error |-> PyStr(<<"Could not parse JSON output">>), raw_output |-> out]

\* if json_data: build and push cleaned_data  else: push the parse error
Build ==
    /\ pc = "build"
    /\ IF PyTruthy(json_data)
       THEN IF BuildRaises(json_data) = {}
            THEN /\ sink' = Append(sink, CleanedData(json_data))
                 /\ pc' = "done"
                 /\ exc' = exc
            ELSE /\ \E m \in BuildRaises(json_data) : exc' = <<m>>
                 /\ pc' = "except"
                 /\ sink' = sink
       ELSE /\ sink' = Append(sink, ParseErrorRecord(output))
            /\ pc' = "done"
            /\ exc' = exc
    /\ steps' = Append(steps, "build")
    /\ UNCHANGED <<actor_input, prefs, answer, result, output, json_data>>

\* (mutant) the except branch pushes the result itself, not str(result)
FailedRecord_unstringified(msg, res) ==
    [error |-> PyStr(<<"Failed to process results: ">> \o msg), raw_output |-> res]

\* the record of the except branch
FailedRecord(msg, res) ==
    [error |-> PyStr(<<"Failed to process results: ">> \o msg),
     raw_output |-> PyStr(py_str(res))]

\* except Exception as e: log and push
Except ==
    /\ pc = "except"
    /\ sink' = Append(sink, FailedRecord(exc, result))
    /\ pc' = "done"
    /\ steps' = Append(steps, "except")
    /\ UNCHANGED <<actor_input, prefs, answer, result, output, json_data, exc>>

\* ------------------------------------------------------------ claims about main()

StructuredKeys == {"summary", "jobs", "recommendations"}

ErrorKeys == {"error", "raw_output"}

Fenced == {"fenced_json", "fenced", "fenced_prose", "second_block"}

\* main() has ended: it returned, or an exception left it
Ended == pc \in {"done", "raised"}

\* step 2 of the normalizer on a text: the fenced block, parsed
FencedLoads(text) ==
    IF re_search(text).found THEN json_loads(strip(re_search(text).group))
    ELSE [ok |-> FALSE, val |-> PyNone]

\* the answer writes a JSON object whose "jobs" is a list or is absent
PlainObject(g) == g.top = "object" /\ g.jobs \in {"absent", "array"}

\* C1: every invocation of main pushes exactly one record before it ends,
\* and no exception leaves it, whatever the agent loop does (returns a
\* mapping with 'output', returns another shape, or raises).
C1_OneRecordNoEscape ==
    /\ Len(sink) <= 1
    /\ Ended => (Len(sink) = 1 /\ pc # "raised")

\* C2: when the final text yields valid JSON, by the direct parse or by the
\* parse of a fenced block, the pushed record has a 'jobs' field holding the
\* first min(n, 5) of the n parsed jobs in their order (n = 0 without the key).
C2_JobsTruncated ==
    (/\ pc = "done"
     /\ PlainObject(answer)
     /\ json_loads(output.v).ok \/ FencedLoads(output.v).ok)
    => /\ Len(sink) = 1
       /\ "jobs" \in DOMAIN sink[1]
       /\ sink[1].jobs = PyList([i \in 1..Min(answer.n, 5) |-> Job(i)])

\* C3: when the direct parse or the fenced-block parse yields a JSON object,
\* the pushed record has the keys summary, jobs and recommendations, with
\* "No summary provided", [] and [] for the keys the object lacks; the
\* "Could not parse JSON output" payload is pushed only when both parses fail.
C3_StructuredWhenParsed ==
    (pc = "done" /\ PlainObject(answer) /\ IsStr(output) /\ Len(sink) = 1)
    => LET d == json_loads(output.v)
           f == FencedLoads(output.v)
           obj == IF d.ok THEN d.val ELSE f.val
       IN /\ ((d.ok \/ f.ok) /\ IsDict(obj))
             => /\ DOMAIN sink[1] = StructuredKeys
                /\ ~HasKey(obj, <<"summary">>)
                     => sink[1].summary = PyStr(<<"No summary provided">>)
                /\ ~HasKey(obj, <<"jobs">>) => sink[1].jobs = PyList(<<>>)
                /\ ~HasKey(obj, <<"recommendations">>)
                     => sink[1].recommendations = PyList(<<>>)
          /\ (/\ DOMAIN sink[1] = ErrorKeys
              /\ sink[1].error = PyStr(<<"Could not parse JSON output">>))
             => (~d.ok /\ ~f.ok)

\* the text holds exactly one fenced block, and no string of the object in it
\* shows a fence
OneCleanBlock(g) ==
    g.wrap \in {"fenced_json", "fenced", "fenced_prose"} /\ g.recs # "fence"

\* C4: a final text that is not JSON itself but holds a fenced block (with or
\* without the json tag) whose content is a valid JSON object ends with the
\* StructuredResult built from that object pushed, not an error payload; and
\* the fenced block is searched only after the direct parse has failed.
\* (Stated for the texts with one such block and no fence inside it.)
C4_FencedObjectParsed ==
    /\ (pc = "done" /\ OneCleanBlock(answer) /\ PlainObject(answer))
       => sink = <<CleanedData(AnswerValue(answer))>>
    /\ \A i \in 1..Len(steps) :
         steps[i] = "search"
         => (i > 1 /\ steps[i - 1] = "loads" /\ ~json_loads(output.v).ok)

\* C5: every record pushed has the keys {summary, jobs, recommendations} with
\* jobs a sequence of at most 5 elements, or the keys {error, raw_output}
\* with both a string, whatever the agent loop returned.
C5_RecordShapes ==
    \A i \in 1..Len(sink) :
        \/ /\ DOMAIN sink[i] = StructuredKeys
           /\ sink[i].jobs.t \in {"arr", "str"}
           /\ Len(sink[i].jobs.v) <= 5
        \/ /\ DOMAIN sink[i] = ErrorKeys
           /\ IsStr(sink[i].error)
           /\ IsStr(sink[i].raw_output)

\* the answers for which building cleaned_data must raise: JSON that parses
\* to a true value that is no object, or to an object whose "jobs" is null,
\* a number or a mapping
AnswerBreaksBuild(g) ==
    \/ g.wrap \in {"direct", "padded"} /\ g.top \in {"array", "number", "string"}
    \/ /\ g.top = "object"
       /\ g.jobs \in {"null", "number", "object"}
       /\ g.wrap = "second_block" => FALSE
       /\ g.wrap \in Fenced => g.recs # "fence"

\* C10: when building the result raises inside the try block (the parsed JSON
\* is a non-empty array, its 'jobs' cannot be sliced, ...), exactly one record
\* is pushed, {error: "Failed to process results: <message>",
\* raw_output: str(result)}, and nothing is pushed before the handler runs.
C10_BuildFailurePushed ==
    /\ pc = "except" => sink = <<>>
    /\ (pc = "done" /\ (exc # <<>> \/ AnswerBreaksBuild(answer)))
       => /\ exc # <<>>
          /\ Len(sink) = 1
          /\ DOMAIN sink[1] = ErrorKeys
          /\ sink[1].error = PyStr(<<"Failed to process results: ", exc[1]>>)
          /\ sink[1].raw_output = PyStr(py_str(result))

\* a non-empty JSON array was parsed, the build raised, the handler pushed
C10_Witness ==
    /\ pc = "done"
    /\ answer.top = "array"
    /\ json_data = PyList(<<Job(1)>>)
    /\ exc = <<"'list' object has no attribute 'get'">>
    /\ Len(sink) = 1

\* ------------------------------------------------------------ the agent loop

VARIABLES
    agent_state,  \* Thinking, AwaitingToolResult, Done, Exhausted, Raised, ParseError
    iterations,   \* the executor's count of finished iterations
    pending,      \* the tool the model chose, "" when none is running
    transcript,   \* the (action, observation) steps taken so far
    model_calls,  \* how many times the model was asked for its next step
    agent_output  \* "" while running, then "final" or "stopped"

agent_vars == <<agent_state, iterations, pending, transcript, model_calls, agent_output>>

\* (mutant) the executor is given one iteration more
max_iterations_plus_one == 5 + 1

\* AgentExecutor(..., max_iterations=5)
max_iterations == 5

\* AgentExecutor(..., handle_parsing_errors=True)
handle_parsing_errors == TRUE

\* tools = [tool_linkedin_search, tool_indeed_search, tool_dice_search, analyze_resume]
tool_names == {"search_linkedin_jobs", "search_indeed_jobs", "search_dice_jobs",
               "analyze_resume"}

InitAgent ==
    /\ agent_state = "Thinking"
    /\ iterations = 0
    /\ pending = ""
    /\ transcript = <<>>
    /\ model_calls = 0
    /\ agent_output = ""

\* the loop goes on while iterations < max_iterations
ShouldContinue == iterations < max_iterations

\* the model answers with an action: a tool of the set, or a name outside it
ModelChoosesTool ==
    /\ agent_state = "Thinking" /\ ShouldContinue
    /\ \E name \in tool_names \cup {"other"} : pending' = name
    /\ agent_state' = "AwaitingToolResult"
    /\ model_calls' = model_calls + 1
    /\ UNCHANGED <<iterations, transcript, agent_output>>

\* the tool returns (or its failure is put into words): the observation is
\* appended and the iteration counted; a name outside the set is answered
\* with an observation too
ToolObserved ==
    /\ agent_state = "AwaitingToolResult"
    /\ \E obs \in (IF pending \in tool_names THEN {"result", "error"} ELSE {"invalid tool"}) :
         transcript' = Append(transcript, [action |-> pending, observation |-> obs])
    /\ iterations' = iterations + 1
    /\ pending' = ""
    /\ agent_state' = "Thinking"
    /\ UNCHANGED <<model_calls, agent_output>>

\* the model's response does not parse: with handle_parsing_errors the error
\* is fed back as the observation of an _Exception step, and the iteration
\* counted; without it the error leaves the loop
ModelUnparsable ==
    /\ agent_state = "Thinking" /\ ShouldContinue
    /\ model_calls' = model_calls + 1
    /\ IF handle_parsing_errors
       THEN /\ transcript' = Append(transcript, [action |-> "_Exception",
                                                 observation |-> "invalid response"])
            /\ iterations' = iterations + 1
            /\ agent_state' = "Thinking"
       ELSE /\ agent_state' = "ParseError"
            /\ UNCHANGED <<transcript, iterations>>
    /\ UNCHANGED <<pending, agent_output>>

\* the model gives its final answer
ModelFinishes ==
    /\ agent_state = "Thinking" /\ ShouldContinue
    /\ model_calls' = model_calls + 1
    /\ agent_state' = "Done"
    /\ agent_output' = "final"
    /\ UNCHANGED <<iterations, pending, transcript>>

\* the call of the model fails: nothing in the loop catches it
ModelCallRaises ==
    /\ agent_state = "Thinking" /\ ShouldContinue
    /\ model_calls' = model_calls + 1
    /\ agent_state' = "Raised"
    /\ UNCHANGED <<iterations, pending, transcript, agent_output>>

\* the budget is used up: the loop stops with the iteration-limit message
Exhaust ==
    /\ agent_state = "Thinking" /\ ~ShouldContinue
    /\ agent_state' = "Exhausted"
    /\ agent_output' = "stopped"
    /\ UNCHANGED <<iterations, pending, transcript, model_calls>>

AgentStep ==
    \/ ModelChoosesTool
    \/ ToolObserved
    \/ ModelUnparsable
    \/ ModelFinishes
    \/ ModelCallRaises
    \/ Exhaust

\* the action steps taken: the transcript's entries that name a tool call
ActionSteps == Len(transcript) + (IF agent_state = "AwaitingToolResult" THEN 1 ELSE 0)

VARIABLES
    s_pc,        \* where base_job_search is
    actor_id,    \* the scraper the adapter names
    query,       \* the tool input
    run_input,   \* what is sent to the scraper
    run,         \* what the scraper call returned
    kinds,       \* how each upstream item was made: "full", "sparse" or "bad"
    dataset_items, \* the upstream items
    s_failed,    \* the step that failed, "" when none did
    s_return     \* what the adapter returned

search_vars == <<s_pc, actor_id, query, run_input, run, kinds, dataset_items, s_failed, s_return>>

\* the largest number of items upstream returns
MaxItems == 7

\* _linkedin_search, _indeed_search, _dice_search
Adapters == {"krandiash/linkedin-jobs-scraper", "krandiash/indeed-scraper",
             "mohamedgb00714/dicecom-job-scraper"}

\* tool inputs: a title, a title and a location, and an input that is no string
Queries ==
    <<PyStr(<<"python", " ", "developer">>),
      PyStr(<<" ", "python", ",", " ", "Berlin", " ", ",", "senior">>),
      PyNone>>

\* s.split(',')[0] and s.split(',')[1] of a string that holds a comma
FirstComma(s, i) ==
    LET commas == {j \in i..Len(s) : s[j] = ","} IN
    IF commas = {} THEN 0 ELSE CHOOSE j \in commas : \A k \in commas : j <= k

SplitHead(s) ==
    IF FirstComma(s, 1) = 0 THEN s ELSE SubSeq(s, 1, FirstComma(s, 1) - 1)

SplitSecond(s) ==
    LET rest == SubSeq(s, FirstComma(s, 1) + 1, Len(s)) IN SplitHead(rest)

\* run_input; raises when the query has no split
RunInput(q, location) ==
    [query |-> PyStr(strip(SplitHead(q.v))),
     location |-> IF FirstComma(q.v, 1) = 0 THEN location
                  ELSE PyStr(strip(SplitSecond(q.v))),
     limit |-> 10]

\* one upstream item: all fields, the title only, or a title that is null
UpstreamItem(kind, i) ==
    CASE kind = "full" ->
            PyDict(<<Pair(<<"title">>, PyStr(<<" ", JobName[i], "\n">>)),
                     Pair(<<"companyName">>, PyStr(<<"Acme", " ">>)),
                     Pair(<<"jobLocation">>,
                          PyDict(<<Pair(<<"displayName">>, PyStr(<<" ", "Berlin">>))>>)),
                     Pair(<<"postedDate">>, PyStr(<<"2024-01-01">>)),
                     Pair(<<"employmentType">>, PyStr(<<"Full-time">>)),
                     Pair(<<"salary">>, PyStr(<<"100k">>)),
                     Pair(<<"summary">>, PyStr(<<"Build", " ", "things">>)),
                     Pair(<<"detailsPageUrl">>, PyStr(<<"https://jobs/", JobName[i]>>)),
                     Pair(<<"isRemote">>, PyBool(TRUE))>>)
      [] kind = "sparse" -> PyDict(<<Pair(<<"title">>, PyStr(<<JobName[i]>>))>>)
      [] OTHER -> PyDict(<<Pair(<<"title">>, PyNone),
                           Pair(<<"detailsPageUrl">>, PyStr(<<"https://jobs/", JobName[i]>>))>>)

\* JobSearchResult(...) of one item; ok = FALSE when building it raises:
\* .strip() of a value that is no string, .get of a jobLocation that is no
\* mapping, [:300] + '...' of a summary that is no string
FormatJob(job) ==
    LET title == DictGet(job, <<"title">>, PyStr(<<>>))
        company == DictGet(job, <<"companyName">>, PyStr(<<>>))
        loc == DictGet(job, <<"jobLocation">>, PyDict(<<>>))
        name == IF IsDict(loc) THEN DictGet(loc, <<"displayName">>, PyStr(<<>>)) ELSE PyNone
        summary == DictGet(job, <<"summary">>, PyNone)
    IN IF \/ ~IsDict(job)
          \/ ~IsStr(title) \/ ~IsStr(company) \/ ~IsDict(loc) \/ ~IsStr(name)
          \/ (PyTruthy(summary) /\ ~IsStr(summary))
       THEN [ok |-> FALSE, job |-> PyNone]
       ELSE [ok |-> TRUE,
             job |-> [title |-> PyStr(strip(title.v)),
                      company |-> PyStr(strip(company.v)),
                      location |-> PyStr(strip(name.v)),
                      posting_date |-> DictGet(job, <<"postedDate">>, PyStr(<<>>)),
                      employment_type |-> DictGet(job, <<"employmentType">>, PyStr(<<>>)),
                      salary |-> DictGet(job, <<"salary">>, PyStr(<<"Not specified">>)),
                      description |->
                          IF PyTruthy(summary)
                          THEN PyStr(SubSeq(summary.v, 1, Min(Len(summary.v), 300)) \o <<"...">>)
                          ELSE PyStr(<<>>),
                      url |-> DictGet(job, <<"detailsPageUrl">>, PyStr(<<>>)),
                      is_remote |-> DictGet(job, <<"isRemote">>, PyBool(FALSE))]]

\* the loop of format_job_results: an item that raises is logged and skipped
RECURSIVE FormatLoop(_, _)
FormatLoop(items, formatted_jobs) ==
    IF Len(items) = 0 THEN formatted_jobs
    ELSE FormatLoop(Tail(items),
                    IF FormatJob(Head(items)).ok
                    THEN Append(formatted_jobs, FormatJob(Head(items)).job)
                    ELSE formatted_jobs)

\* (mutant) the limit is applied to the upstream items, before the loop
format_job_results_limit_first(items) ==
    FormatLoop(SubSeq(items, 1, Min(Len(items), 5)), <<>>)

\* format_job_results(items): formatted_jobs[:5]
format_job_results(items) ==
    SubSeq(FormatLoop(items, <<>>), 1, Min(Len(FormatLoop(items, <<>>)), 5))

InitSearch ==
    /\ s_pc = "idle"
    /\ actor_id = ""
    /\ query = Unset
    /\ run_input = Unset
    /\ run = Unset
    /\ kinds = <<>>
    /\ dataset_items = Unset
    /\ s_failed = ""
    /\ s_return = Unset

\* the agent calls one of the three adapters with its input
SearchInvoked ==
    /\ s_pc = "idle"
    /\ \E a \in Adapters : actor_id' = a
    /\ \E i \in 1..Len(Queries) : query' = Queries[i]
    /\ s_pc' = "input"
    /\ UNCHANGED <<run_input, run, kinds, dataset_items, s_failed, s_return>>

\* run_input = {...}: query.split raises for an input that is no string
BuildRunInput ==
    /\ s_pc = "input"
    /\ IF IsStr(query)
       THEN /\ run_input' = RunInput(query, PyStr(<<"Remote">>))
            /\ s_pc' = "call"
            /\ s_failed' = s_failed
       ELSE /\ s_pc' = "except"
            /\ s_failed' = "input"
            /\ run_input' = run_input
    /\ UNCHANGED <<actor_id, query, run, kinds, dataset_items, s_return>>

\* what the scraper call can return: nothing, an empty mapping, a run, a run
\* that names no dataset
Runs ==
    <<PyNone,
      PyDict(<<>>),
      PyDict(<<Pair(<<"id">>, PyStr(<<"r1">>)), Pair(<<"defaultDatasetId">>, PyStr(<<"ds">>))>>),
      PyDict(<<Pair(<<"id">>, PyStr(<<"r1">>))>>)>>

\* run = await Actor.apify_client.actor(actor_id).call(run_input=run_input):
\* it raises, or returns; if not run: return []
ActorCall ==
    /\ s_pc = "call"
    /\ \/ /\ s_pc' = "except"
          /\ s_failed' = "call"
          /\ UNCHANGED <<run, s_return>>
       \/ \E i \in 1..Len(Runs) :
            /\ run' = Runs[i]
            /\ IF ~PyTruthy(Runs[i])
               THEN /\ s_return' = <<>>
                    /\ s_pc' = "returned"
                    /\ s_failed' = "no run"
               ELSE /\ s_pc' = "list"
                    /\ UNCHANGED <<s_failed, s_return>>
    /\ UNCHANGED <<actor_id, query, run_input, kinds, dataset_items>>

\* dataset_items = (await ...dataset(run["defaultDatasetId"]).list_items()).items:
\* the run has no such key or the listing raises, or it gives the upstream
\* items, or it gives no list at all
ListItems ==
    /\ s_pc = "list"
    /\ \/ /\ s_pc' = "except"
          /\ s_failed' = "list"
          /\ UNCHANGED <<kinds, dataset_items>>
       \/ /\ HasKey(run, <<"defaultDatasetId">>)
          /\ \E n \in 0..MaxItems :
               \E ks \in [1..n -> {"full", "sparse", "bad"}] :
                  /\ kinds' = ks
                  /\ dataset_items' = PyList([i \in 1..n |-> UpstreamItem(ks[i], i)])
          /\ s_pc' = "format"
          /\ s_failed' = s_failed
       \/ /\ HasKey(run, <<"defaultDatasetId">>)
          /\ dataset_items' = PyNone
          /\ kinds' = kinds
          /\ s_pc' = "format"
          /\ s_failed' = s_failed
    /\ UNCHANGED <<actor_id, query, run_input, run, s_return>>

\* return format_job_results(dataset_items): iterating what is no list raises
FormatAndReturn ==
    /\ s_pc = "format"
    /\ IF dataset_items.t = "arr"
       THEN /\ s_return' = format_job_results(dataset_items.v)
            /\ s_pc' = "returned"
            /\ s_failed' = s_failed
       ELSE /\ s_pc' = "except"
            /\ s_failed' = "format"
            /\ s_return' = s_return
    /\ UNCHANGED <<actor_id, query, run_input, run, kinds, dataset_items>>

\* (mutant) the handler logs and raises again
SearchExcept_reraise ==
    /\ s_pc = "except"
    /\ s_pc' = "escaped"
    /\ UNCHANGED <<actor_id, query, run_input, run, kinds, dataset_items, s_failed, s_return>>

\* except Exception as e: log; return []
SearchExcept ==
    /\ s_pc = "except"
    /\ s_return' = <<>>
    /\ s_pc' = "returned"
    /\ UNCHANGED <<actor_id, query, run_input, run, kinds, dataset_items, s_failed>>

\* ------------------------------------------------------------ resume analysis

VARIABLES
    r_pc,         \* where _analyze_resume is
    resume_text,  \* the tool input
    llm_calls,    \* the model calls made by this invocation
    r_return      \* what the tool returned

resume_vars == <<r_pc, resume_text, llm_calls, r_return>>

\* the longest resume text
MaxResumeLen == 3

ResumeChars == {" ", "\n", "cv"}

ResumeTexts == UNION { [1..n -> ResumeChars] : n \in 0..MaxResumeLen }

\* (mutant) the text is tested without strip()
IsEmptyResume_no_strip(text) == Len(text) = 0

\* not resume_text.strip()
IsEmptyResume(text) == Len(strip(text)) = 0

\* the record returned without analysis
ResumeRecord(error, summary) ==
    <<Pair(<<"error">>, PyStr(<<error>>)),
      Pair(<<"skills">>, PyList(<<>>)),
      Pair(<<"experience">>, PyList(<<>>)),
      Pair(<<"education">>, PyList(<<>>)),
      Pair(<<"summary">>, PyStr(<<summary>>)),
      Pair(<<"years_experience">>, PyInt(0))>>

\* what the chain can give back: a mapping, or JSON that is no mapping
Analyses ==
    <<PyDict(<<Pair(<<"skills">>, PyList(<<PyStr(<<"python">>)>>)),
               Pair(<<"experience">>, PyList(<<>>)),
               Pair(<<"education">>, PyList(<<>>)),
               Pair(<<"summary">>, PyStr(<<"engineer">>)),
               Pair(<<"years_experience">>, PyInt(7))>>),
      PyDict(<<Pair(<<"raw_text">>, PyStr(<<"other">>))>>),
      PyList(<<PyStr(<<"python">>)>>)>>

InitResume ==
    /\ r_pc = "idle"
    /\ resume_text = <<>>
    /\ llm_calls = 0
    /\ r_return = Unset

\* the agent calls analyze_resume with a text
ResumeInvoked ==
    /\ r_pc = "idle"
    /\ \E text \in ResumeTexts : resume_text' = text
    /\ r_pc' = "check"
    /\ UNCHANGED <<llm_calls, r_return>>

\* if not resume_text.strip(): return the empty record
CheckEmpty ==
    /\ r_pc = "check"
    /\ IF IsEmptyResume(resume_text)
       THEN /\ r_return' = PyDict(ResumeRecord("Empty resume text provided",
                                               "No resume to analyze"))
            /\ r_pc' = "returned"
       ELSE /\ r_pc' = "chain"
            /\ r_return' = r_return
    /\ UNCHANGED <<resume_text, llm_calls>>

\* analysis = await chain.ainvoke(...); return {**analysis, "raw_text": resume_text}
\* a mapping is merged with the text; anything else raises in the merge
ChainReturns ==
    /\ r_pc = "chain"
    /\ llm_calls' = llm_calls + 1
    /\ \E i \in 1..Len(Analyses) :
         IF IsDict(Analyses[i])
         THEN r_return' = PyDict(DictSet(Analyses[i].v, <<"raw_text">>, PyStr(resume_text)))
         ELSE r_return' = PyDict(Append(ResumeRecord("not a mapping", "Analysis failed"),
                                        Pair(<<"raw_text">>, PyStr(resume_text))))
    /\ r_pc' = "returned"
    /\ UNCHANGED resume_text

\* the chain raises (the model call or the output parser): except Exception
ChainRaises ==
    /\ r_pc = "chain"
    /\ llm_calls' = llm_calls + 1
    /\ r_return' = PyDict(Append(ResumeRecord("model call failed", "Analysis failed"),
                                 Pair(<<"raw_text">>, PyStr(resume_text))))
    /\ r_pc' = "returned"
    /\ UNCHANGED resume_text

\* ------------------------------------------------------------ specifications

vars == <<main_vars, agent_vars, search_vars, resume_vars>>

Init == InitMain /\ InitAgent /\ InitSearch /\ InitResume

\* one invocation of main()
NextMain ==
    \/ GetInput /\ UNCHANGED <<agent_vars, search_vars, resume_vars>>
    \/ AinvokeReturnsText /\ UNCHANGED <<agent_vars, search_vars, resume_vars>>
    \/ AinvokeReturnsOther /\ UNCHANGED <<agent_vars, search_vars, resume_vars>>
    \/ AinvokeRaises /\ UNCHANGED <<agent_vars, search_vars, resume_vars>>
    \/ CheckResult /\ UNCHANGED <<agent_vars, search_vars, resume_vars>>
    \/ DirectParse /\ UNCHANGED <<agent_vars, search_vars, resume_vars>>
    \/ FencedParse /\ UNCHANGED <<agent_vars, search_vars, resume_vars>>
    \/ Build /\ UNCHANGED <<agent_vars, search_vars, resume_vars>>
    \/ Except /\ UNCHANGED <<agent_vars, search_vars, resume_vars>>

SpecMain == Init /\ [][NextMain]_vars

\* one run of the agent loop
NextAgent ==
    \/ ModelChoosesTool /\ UNCHANGED <<main_vars, search_vars, resume_vars>>
    \/ ToolObserved /\ UNCHANGED <<main_vars, search_vars, resume_vars>>
    \/ ModelUnparsable /\ UNCHANGED <<main_vars, search_vars, resume_vars>>
    \/ ModelFinishes /\ UNCHANGED <<main_vars, search_vars, resume_vars>>
    \/ ModelCallRaises /\ UNCHANGED <<main_vars, search_vars, resume_vars>>
    \/ Exhaust /\ UNCHANGED <<main_vars, search_vars, resume_vars>>

SpecAgent == Init /\ [][NextAgent]_vars

\* one call of a job-search adapter
NextSearch ==
    \/ SearchInvoked /\ UNCHANGED <<main_vars, agent_vars, resume_vars>>
    \/ BuildRunInput /\ UNCHANGED <<main_vars, agent_vars, resume_vars>>
    \/ ActorCall /\ UNCHANGED <<main_vars, agent_vars, resume_vars>>
    \/ ListItems /\ UNCHANGED <<main_vars, agent_vars, resume_vars>>
    \/ FormatAndReturn /\ UNCHANGED <<main_vars, agent_vars, resume_vars>>
    \/ SearchExcept /\ UNCHANGED <<main_vars, agent_vars, resume_vars>>

SpecSearch == Init /\ [][NextSearch]_vars

\* one call of the resume-analysis tool
NextResume ==
    \/ ResumeInvoked /\ UNCHANGED <<main_vars, agent_vars, search_vars>>
    \/ CheckEmpty /\ UNCHANGED <<main_vars, agent_vars, search_vars>>
    \/ ChainReturns /\ UNCHANGED <<main_vars, agent_vars, search_vars>>
    \/ ChainRaises /\ UNCHANGED <<main_vars, agent_vars, search_vars>>

SpecResume == Init /\ [][NextResume]_vars

\* ------------------------------------------------------------ claims about the tools

\* the text has no character that is not white space
Blank(text) == \A i \in 1..Len(text) : text[i] \in {" ", "\n"}

\* C7: for a resume text that is empty or only white space the tool returns
\* years_experience 0 and empty skills, experience and education, and makes
\* no model call at any point; a model call is made only for a text with a
\* character that is not white space.
C7_BlankResumeNoModelCall ==
    /\ llm_calls <= 1
    /\ llm_calls > 0 => ~Blank(resume_text)
    /\ (r_pc # "idle" /\ Blank(resume_text)) => (llm_calls = 0 /\ r_pc # "chain")
    /\ (r_pc = "returned" /\ Blank(resume_text))
       => /\ DictGet(r_return, <<"years_experience">>, PyNone) = PyInt(0)
          /\ DictGet(r_return, <<"skills">>, PyNone) = PyList(<<>>)
          /\ DictGet(r_return, <<"experience">>, PyNone) = PyList(<<>>)
          /\ DictGet(r_return, <<"education">>, PyNone) = PyList(<<>>)

\* a text of a space and a line break was answered without a model call
C7_Witness ==
    /\ r_pc = "returned"
    /\ resume_text = <<" ", "\n">>
    /\ llm_calls = 0
    /\ DictGet(r_return, <<"years_experience">>, PyNone) = PyInt(0)

\* C8: whichever step of a job search fails (building the run input, the
\* scraper call, a missing run, listing the dataset items, formatting), each
\* of the three adapters returns an empty sequence, and no exception leaves it.
C8_SearchNeverRaises ==
    /\ s_pc \in {"idle", "input", "call", "list", "format", "except", "returned"}
    /\ s_pc = "except" => s_failed \in {"input", "call", "list", "format"}
    /\ (s_pc = "returned" /\ s_failed # "") => s_return = <<>>
    /\ (s_pc = "returned" /\ ~IsStr(query)) => s_failed = "input"
    /\ (s_pc = "returned" /\ dataset_items = PyNone) => s_failed = "format"
    /\ (s_pc = "returned" /\ run # Unset /\ ~HasKey(run, <<"defaultDatasetId">>))
       => s_failed \in {"no run", "list"}

\* the Dice adapter returned [] after listing the dataset items had raised
C8_Witness ==
    /\ s_pc = "returned"
    /\ actor_id = "mohamedgb00714/dicecom-job-scraper"
    /\ s_failed = "list"
    /\ s_return = <<>>

\* the upstream items that format without raising, and the k-th of them
Formattable == {i \in 1..Len(kinds) : kinds[i] # "bad"}

NthFormattable(k) ==
    CHOOSE i \in Formattable : Cardinality({j \in Formattable : j <= i}) = k

\* C9 as claimed: for an upstream list of n items the output has exactly
\* min(n, 5) entries and entry i is the normalized upstream item i, no item
\* skipped.
C9_FirstFiveOfAll ==
    (s_pc = "returned" /\ s_failed = "" /\ dataset_items.t = "arr")
    => /\ Len(s_return) = Min(Len(dataset_items.v), 5)
       /\ \A i \in 1..Len(s_return) : s_return[i].title = PyStr(<<JobName[i]>>)

\* C9 as amended: the output holds the normalized forms of the first
\* min(m, 5) of the m upstream items that format without raising, in upstream
\* order (an item whose formatting raises is skipped); fields the item lacks
\* are '', 'Not specified' and False; when all n items format, the output
\* has min(n, 5) entries and entry i is item i.
C9_FirstFiveFormattable ==
    (s_pc = "returned" /\ s_failed = "" /\ dataset_items.t = "arr")
    => /\ Len(s_return) = Min(Cardinality(Formattable), 5)
       /\ Formattable = 1..Len(kinds) => Len(s_return) = Min(Len(dataset_items.v), 5)
       /\ \A k \in 1..Len(s_return) :
            LET i == NthFormattable(k) IN
            /\ Formattable = 1..Len(kinds) => i = k
            /\ s_return[k].title = PyStr(<<JobName[i]>>)
            /\ kinds[i] = "full"
               => /\ s_return[k].url = PyStr(<<"https://jobs/", JobName[i]>>)
                  /\ s_return[k].description = PyStr(<<"Build", " ", "things", "...">>)
                  /\ s_return[k].location = PyStr(<<"Berlin">>)
                  /\ s_return[k].is_remote = PyBool(TRUE)
            /\ kinds[i] = "sparse"
               => /\ s_return[k].url = PyStr(<<>>)
                  /\ s_return[k].description = PyStr(<<>>)
                  /\ s_return[k].salary = PyStr(<<"Not specified">>)
                  /\ s_return[k].is_remote = PyBool(FALSE)

\* seven upstream items, the second with a null title: five entries came
\* back, the second of them upstream item 3
C9_Witness ==
    /\ s_pc = "returned"
    /\ Len(kinds) = 7
    /\ kinds[2] = "bad"
    /\ Formattable = {1, 3, 4, 5, 6, 7}
    /\ Len(s_return) = 5
    /\ s_return[2].title = PyStr(<<"j3">>)

====
